---------------------------- MODULE Spec2Model ----------------------------
(***************************************************************************)
(* A model of mopidy_connman.actor.ConnectionManager: the session          *)
(* lifecycle (on_start / on_stop / set_property), the api_protect          *)
(* readiness gate and the operational calls, run against a small model of  *)
(* the connman daemon and of the pyconnman objects the actor holds.        *)
(*                                                                         *)
(* Every handler is one action.  A handler runs on an execution context    *)
(* (a record holding the actor's fields, the daemon's state, the log of    *)
(* pyconnman calls made so far, the notifications sent so far and the      *)
(* pending exception).  Every pyconnman call may raise: the input failAt   *)
(* of an action names the position in the call log of the call that        *)
(* raises (0: none does).  The two signal handlers run on the bus thread;  *)
(* SpecEvents splits on_start where the receivers are installed, so that   *)
(* a signal can arrive while on_start is still running.                    *)
(***************************************************************************)
EXTENDS Naturals, Sequences, FiniteSets, TLC

VARIABLES
    manager,      \* self.manager is not None
    receivers,    \* signals with a receiver installed on self.manager
    agent,        \* self.agent: [obj, exported, params]
    state,        \* self.state
    config,       \* self.config
    agentReg,     \* daemon: an agent is registered at agent_path
    techPowered,  \* daemon: technology type -> Powered
    services,     \* daemon: the enumeration get_services() returns
    connected,    \* daemon: paths of the connected services
    props,        \* daemon: path -> live property bag
    last,         \* the last call: [op, arg, exc, fault, emitted, ret]
    prev,         \* "start": the call before the last one was a start()
                  \* that completed; "other" otherwise
    pc            \* the actor thread: "idle" between handlers, "starting"
                  \* inside on_start after self.manager = manager

vars == <<manager, receivers, agent, state, config, agentReg, techPowered,
          services, connected, props, last, prev, pc>>

----------------------------------------------------------------------------
(* Program constants *)

agent_path == "/mopidy/wifi_agent"

readonly_properties ==
    {"State", "Error", "Name", "Type", "Security", "Strength", "Nameservers",
     "Timeservers", "Domains", "IPv4", "IPv6", "Ethernet"}

readwrite_properties ==
    {"Autoconnect", "Nameservers.Configuration", "Timeservers.Configuration",
     "Domains.Configuration", "IPv4.Configuration", "IPv6.Configuration"}

allowed_config == {"name", "ssid", "passphrase", "wpspin"}

SIGNAL_SERVICES_CHANGED == "ServicesChanged"
SIGNAL_PROPERTY_CHANGED == "PropertyChanged"

----------------------------------------------------------------------------
(* The daemon the model runs against *)

\* get_technologies(), in the daemon's order
Techs == <<"wifi", "ethernet">>
TechTypes == {Techs[i] : i \in 1..Len(Techs)}

Paths == {"p1", "p2"}

\* The enumerations the daemon may report: one with a duplicated Name, one
\* with a service named "*"
ServiceLists ==
    { << [path |-> "p1", name |-> "home"], [path |-> "p2", name |-> "home"] >>,
      << [path |-> "p2", name |-> "*"] >> }

\* The power states the daemon may be in when the actor is constructed
InitPowered ==
    { [t \in TechTypes |-> t = "ethernet"], [t \in TechTypes |-> t = "wifi"] }

\* Live property bags: one with both read-write keys of the model, one
\* with a single read-write key and a key of neither list, one with no
\* read-write key and a dbus.Byte value
DefaultBag == [k \in {"Type", "Autoconnect", "IPv4.Configuration"} |-> "old"]

Bags ==
    { DefaultBag,
      [k \in {"Autoconnect", "Bogus"} |-> "old"],
      [k \in {"Type", "Strength"} |->
          IF k = "Strength" THEN "Byte(60)" ELSE "old"] }

\* manager.State: the daemon's aggregate connection state
DaemonState(x) == IF x.connected = {} THEN "idle" ELSE "online"

----------------------------------------------------------------------------
(* pyconnman.SimpleWifiAgent *)

NoParams == [t \in {} |-> {}]
NoAgent == [obj |-> FALSE, exported |-> FALSE, params |-> NoParams]
\* SimpleWifiAgent(agent_path): exported on the bus, nothing pre-supplied
NewAgent == [obj |-> TRUE, exported |-> TRUE, params |-> NoParams]

\* agent.set_service_params(path, **set_config)
AgentSetServiceParams(a, path, fields) ==
    [a EXCEPT !.params =
        [t \in DOMAIN a.params \cup {path} |->
            IF t = path THEN fields ELSE a.params[t]]]

NoAnswer == {<<"no", "answer">>}

\* The agent's answer to an inbound credential request targeted at path:
\* the exact-path entry first, the wildcard entry otherwise.
AgentRequestInput(a, path) ==
    IF path \in DOMAIN a.params THEN a.params[path]
    ELSE IF "*" \in DOMAIN a.params THEN a.params["*"]
    ELSE NoAnswer

----------------------------------------------------------------------------
(* Execution contexts *)

InitConfig ==
    [powered |-> {"wifi"}, scannable |-> {"wifi"}, apipa_enabled |-> FALSE,
     apipa_ipaddr |-> "169.254.1.1", apipa_netmask |-> "255.255.0.0",
     apipa_interface |-> "home"]

Ctx(f) ==
    [manager |-> manager, receivers |-> receivers, agent |-> agent,
     state |-> state, config |-> config, agentReg |-> agentReg,
     techPowered |-> techPowered, connected |-> connected, props |-> props,
     calls |-> << >>, emitted |-> << >>, exc |-> "none", failAt |-> f,
     fault |-> FALSE, ret |-> << >>]

Running(x) == x.exc = "none"
Log(x, c) == [x EXCEPT !.calls = Append(@, c)]
\* the call about to be made is the one that raises
Injected(x) == Len(x.calls) + 1 = x.failAt
Raise(x, e) == [x EXCEPT !.exc = e, !.fault = TRUE]
\* an exception was raised and caught
Swallow(x) == [x EXCEPT !.fault = TRUE]
Send(x, n) == [x EXCEPT !.emitted = Append(@, n)]

----------------------------------------------------------------------------
(* Helpers of the actor *)

\* _get_service_by_name on an enumeration: the path of the first entry
\* whose Name is name, "None" when there is none
RECURSIVE FirstByName(_, _, _)
FirstByName(enum, name, i) ==
    IF i > Len(enum) THEN "None"
    ELSE IF enum[i].name = name THEN enum[i].path
    ELSE FirstByName(enum, name, i + 1)

\* The path of the last entry named name instead of the first
RECURSIVE LastByName(_, _, _)
LastByName(enum, name, i) ==
    IF i < 1 THEN "None"
    ELSE IF enum[i].name = name THEN enum[i].path
    ELSE LastByName(enum, name, i - 1)

get_service_by_name_last(enum, name) == LastByName(enum, name, Len(enum))

get_service_by_name(enum, name) == FirstByName(enum, name, 1)

\* _unregister_wifi_agent: every exception is swallowed
unregister_wifi_agent(x) ==
    IF ~Running(x) \/ ~x.agent.obj THEN x
    ELSE LET a == Log(x, <<"remove_from_connection", agent_path>>) IN
         IF Injected(x) \/ ~x.agent.exported THEN Swallow(a)
         ELSE LET b == [a EXCEPT !.agent.exported = FALSE]
                  c == Log(b, <<"unregister_agent", agent_path>>) IN
              IF Injected(b) \/ ~b.agentReg THEN Swallow(c)
              ELSE [c EXCEPT !.agentReg = FALSE, !.agent = NoAgent]


----------------------------------------------------------------------------
(* on_start *)

\* pyconnman.ConnManager() and the two add_signal_receiver calls; the new
\* manager is a local until self.manager = manager
create_manager(x) ==
    LET a == Log(x, <<"ConnManager">>)
        b == Log(a, <<"add_signal_receiver", SIGNAL_SERVICES_CHANGED>>)
        c == Log(b, <<"add_signal_receiver", SIGNAL_PROPERTY_CHANGED>>)
    IN  IF Injected(x) THEN Raise(a, "TransportError")
        ELSE IF Injected(a) THEN Raise(b, "TransportError")
        ELSE IF Injected(b) THEN Raise(c, "TransportError")
        ELSE [c EXCEPT !.manager = TRUE,
                       !.receivers = {SIGNAL_SERVICES_CHANGED,
                                      SIGNAL_PROPERTY_CHANGED}]

\* An on_start that keeps the credentials of the agent it already holds
create_agent_reusing(x) ==
    IF ~Running(x) THEN x
    ELSE LET a == Log(x, <<"SimpleWifiAgent", agent_path>>) IN
         IF Injected(x) THEN Raise(a, "TransportError")
         ELSE [a EXCEPT !.agent = [NewAgent EXCEPT !.params = x.agent.params]]

\* self.agent = pyconnman.SimpleWifiAgent(self.agent_path)
create_agent(x) ==
    IF ~Running(x) THEN x
    ELSE LET a == Log(x, <<"SimpleWifiAgent", agent_path>>) IN
         IF Injected(x) THEN Raise(a, "TransportError")
         ELSE [a EXCEPT !.agent = NewAgent]

\* self.manager.register_agent(self.agent_path); the daemon refuses a
\* second registration
register_agent(x) ==
    IF ~Running(x) THEN x
    ELSE LET a == Log(x, <<"register_agent", agent_path>>) IN
         IF Injected(x) \/ x.agentReg THEN Raise(a, "TransportError")
         ELSE [a EXCEPT !.agentReg = TRUE]

\* A round of the loop that also powers off what is not in the powered set
power_on_one_symmetric(x, t) ==
    IF ~Running(x) THEN x
    ELSE LET a == Log(x, <<"Type", t>>) IN
         IF Injected(x) THEN Raise(a, "TransportError")
         ELSE LET b == Log(a, <<"Powered", t>>) IN
              IF Injected(a) THEN Raise(b, "TransportError")
              ELSE IF b.techPowered[t] = (t \in a.config.powered) THEN b
              ELSE LET c == Log(b, <<"Powered=True", t>>) IN
                   IF Injected(b) THEN Raise(c, "TransportError")
                   ELSE [c EXCEPT !.techPowered[t] = (t \in a.config.powered)]

\* One round of the loop over get_technologies()
power_on_one(x, t) ==
    IF ~Running(x) THEN x
    ELSE LET a == Log(x, <<"Type", t>>) IN
         IF Injected(x) THEN Raise(a, "TransportError")
         ELSE IF t \notin a.config.powered THEN a
         ELSE LET b == Log(a, <<"Powered", t>>) IN
              IF Injected(a) THEN Raise(b, "TransportError")
              ELSE IF b.techPowered[t] THEN b
              ELSE LET c == Log(b, <<"Powered=True", t>>) IN
                   IF Injected(b) THEN Raise(c, "TransportError")
                   ELSE [c EXCEPT !.techPowered[t] = TRUE]

RECURSIVE power_on_from(_, _)
power_on_from(x, i) ==
    IF i > Len(Techs) THEN x
    ELSE power_on_from(power_on_one(x, Techs[i]), i + 1)

power_on(x) ==
    IF ~Running(x) THEN x
    ELSE LET a == Log(x, <<"get_technologies">>) IN
         IF Injected(x) THEN Raise(a, "TransportError")
         ELSE power_on_from(a, 1)

\* self.manager.get_services(), then the first entry named name: the
\* context after the call and the path found ("None": not found)
resolve(x, name) ==
    LET a == Log(x, <<"get_services">>) IN
    IF Injected(x) THEN [ctx |-> Raise(a, "TransportError"), path |-> "None"]
    ELSE [ctx |-> a, path |-> get_service_by_name(services, name)]

\* s.connect() / s.disconnect() on the service at path
service_connect(x, path) ==
    IF ~Running(x) THEN x
    ELSE LET a == Log(x, <<"connect", path>>) IN
         IF Injected(x) THEN Raise(a, "TransportError")
         ELSE [a EXCEPT !.connected = @ \cup {path}]

service_disconnect(x, path) ==
    IF ~Running(x) THEN x
    ELSE LET a == Log(x, <<"disconnect", path>>) IN
         IF Injected(x) THEN Raise(a, "TransportError")
         ELSE [a EXCEPT !.connected = @ \ {path}]

\* s.set_property(key, value) on the service at path
service_set_property(x, path, key, value) ==
    IF ~Running(x) THEN x
    ELSE LET a == Log(x, <<"set_property", path, key, value>>) IN
         IF Injected(x) THEN Raise(a, "TransportError")
         ELSE [a EXCEPT !.props[path] =
                  [k \in DOMAIN @ \cup {key} |-> IF k = key THEN value ELSE @[k]]]

\* The body of get_connection_state: self.manager.State
read_state(x) ==
    LET a == Log(x, <<"State">>) IN
    IF Injected(x) THEN Raise(a, "TransportError")
    ELSE [a EXCEPT !.ret = <<DaemonState(a)>>]

\* api_protect
api_protect(x) == IF x.manager THEN x ELSE Raise(x, "NotReady")

\* The dict {'Method': 'manual', 'Address': addr, 'Netmask': mask} that
\* on_start builds, as a property value of the model
ManualConfigs ==
    [c \in {<<"169.254.1.1", "255.255.0.0">>} |->
        "manual 169.254.1.1/255.255.0.0"]
manual_config(addr, mask) == ManualConfigs[<<addr, mask>>]

\* The APIPA fallback without its test of the connection state
apipa_always(x) ==
    IF ~Running(x) THEN x
    ELSE LET a == read_state(api_protect(x)) IN
         IF ~Running(a) THEN a
         ELSE IF ~a.config.apipa_enabled
              THEN [a EXCEPT !.ret = << >>]
         ELSE LET r == resolve([a EXCEPT !.ret = << >>],
                               a.config.apipa_interface)
              IN  IF ~Running(r.ctx) \/ r.path = "None" THEN r.ctx
                  ELSE service_connect(
                           service_set_property(r.ctx, r.path,
                               "IPv4.Configuration",
                               manual_config(r.ctx.config.apipa_ipaddr,
                                             r.ctx.config.apipa_netmask)),
                           r.path)

\* The APIPA fallback of on_start
apipa(x) ==
    IF ~Running(x) THEN x
    ELSE LET a == read_state(api_protect(x)) IN
         IF ~Running(a) THEN a
         ELSE IF ~(a.ret = <<"idle">> /\ a.config.apipa_enabled)
              THEN [a EXCEPT !.ret = << >>]
         ELSE LET r == resolve([a EXCEPT !.ret = << >>],
                               a.config.apipa_interface)
              IN  IF ~Running(r.ctx) \/ r.path = "None" THEN r.ctx
                  ELSE service_connect(
                           service_set_property(r.ctx, r.path,
                               "IPv4.Configuration",
                               manual_config(r.ctx.config.apipa_ipaddr,
                                             r.ctx.config.apipa_netmask)),
                           r.path)

notify_started(x) ==
    IF ~Running(x) THEN x
    ELSE Send([x EXCEPT !.state = "started"], "service_started")

\* on_start without its check of self.manager
on_start_unguarded(x) ==
    IF ~Running(x) THEN x
    ELSE notify_started(apipa(power_on(register_agent(create_agent(
             unregister_wifi_agent(create_manager(x)))))))

on_start(x) ==
    IF ~Running(x) \/ x.manager THEN x
    ELSE notify_started(apipa(power_on(register_agent(create_agent(
             unregister_wifi_agent(create_manager(x)))))))

\* on_start up to self.manager = manager, and on_start from there on: the
\* bus thread delivers signals to the receivers from the first half on
on_start_install(x) ==
    IF ~Running(x) \/ x.manager THEN x ELSE create_manager(x)

on_start_finish(x) ==
    notify_started(apipa(power_on(register_agent(create_agent(
        unregister_wifi_agent(x))))))

----------------------------------------------------------------------------
(* on_stop *)

remove_signal_receiver(x, sig) ==
    IF ~Running(x) THEN x
    ELSE LET a == Log(x, <<"remove_signal_receiver", sig>>) IN
         IF Injected(x) THEN Raise(a, "TransportError")
         ELSE [a EXCEPT !.receivers = @ \ {sig}]

notify_stopped(x) ==
    IF ~Running(x) THEN x
    ELSE Send([x EXCEPT !.manager = FALSE, !.state = "stopped"],
              "service_stopped")

\* on_stop removing the receivers before it unregisters the agent
on_stop_receivers_first(x) ==
    IF ~Running(x) \/ ~x.manager THEN x
    ELSE notify_stopped(
             unregister_wifi_agent(
                 remove_signal_receiver(
                     remove_signal_receiver(x, SIGNAL_SERVICES_CHANGED),
                     SIGNAL_PROPERTY_CHANGED)))

on_stop(x) ==
    IF ~Running(x) \/ ~x.manager THEN x
    ELSE notify_stopped(
             remove_signal_receiver(
                 remove_signal_receiver(unregister_wifi_agent(x),
                                        SIGNAL_SERVICES_CHANGED),
                 SIGNAL_PROPERTY_CHANGED))

----------------------------------------------------------------------------
(* set_property / get_property *)

enable(x) == on_start(x)
disable(x) == on_stop(x)

set_property(x, name, value) ==
    IF name \notin DOMAIN x.config THEN x
    ELSE disable(enable(
             Send([x EXCEPT !.config[name] = value],
                  "service_property_changed")))

----------------------------------------------------------------------------
(* The operational calls, each behind api_protect *)

None == "None"

RECURSIVE names_from(_, _)
names_from(enum, i) ==
    IF i > Len(enum) THEN << >>
    ELSE <<enum[i].name>> \o names_from(enum, i + 1)

get_connections(x) ==
    LET g == api_protect(x) IN
    IF ~Running(g) THEN g
    ELSE LET a == Log(g, <<"get_services">>) IN
         IF Injected(g) THEN Raise(a, "TransportError")
         ELSE [a EXCEPT !.ret = <<names_from(services, 1)>>]

\* One round of the loop of scan
scan_one(x, t) ==
    IF ~Running(x) THEN x
    ELSE LET a == Log(x, <<"Type", t>>) IN
         IF Injected(x) THEN Raise(a, "TransportError")
         ELSE IF t \notin a.config.scannable THEN a
         ELSE LET b == Log(a, <<"scan", t>>) IN
              IF Injected(a) THEN Raise(b, "TransportError") ELSE b

RECURSIVE scan_from(_, _)
scan_from(x, i) ==
    IF i > Len(Techs) THEN x
    ELSE scan_from(scan_one(x, Techs[i]), i + 1)

scan(x) ==
    LET g == api_protect(x) IN
    IF ~Running(g) THEN g
    ELSE LET a == Log(g, <<"get_technologies">>) IN
         IF Injected(g) THEN Raise(a, "TransportError")
         ELSE scan_from(a, 1)

get_connection_state(x) ==
    LET g == api_protect(x) IN
    IF ~Running(g) THEN g ELSE read_state(g)

connect(x, conn) ==
    LET g == api_protect(x) IN
    IF ~Running(g) THEN g
    ELSE LET r == resolve(g, conn) IN
         IF ~Running(r.ctx) \/ r.path = None THEN r.ctx
         ELSE service_connect(r.ctx, r.path)

disconnect(x, conn) ==
    LET g == api_protect(x) IN
    IF ~Running(g) THEN g
    ELSE LET r == resolve(g, conn) IN
         IF ~Running(r.ctx) \/ r.path = None THEN r.ctx
         ELSE service_disconnect(r.ctx, r.path)

\* s.get_property(): the live bag of the service at path
service_get_property(x, path) ==
    IF ~Running(x) THEN x
    ELSE LET a == Log(x, <<"get_property", path>>) IN
         IF Injected(x) THEN Raise(a, "TransportError") ELSE a

\* convert_dbus: a dbus.Byte becomes an int, anything else is kept
ByteValues == [b \in {"Byte(60)"} |-> "60"]
convert_dbus(obj) == IF obj \in DOMAIN ByteValues THEN ByteValues[obj] ELSE obj

\* get_connection_properties without its test of the two lists
get_connection_properties_unfiltered(x, conn) ==
    LET g == api_protect(x) IN
    IF ~Running(g) THEN g
    ELSE LET r == resolve(g, conn) IN
         IF ~Running(r.ctx) \/ r.path = None THEN r.ctx
         ELSE LET a == service_get_property(r.ctx, r.path)
                  bag == a.props[r.path]
              IN  IF ~Running(a) THEN a
                  ELSE [a EXCEPT !.ret =
                          <<[i \in DOMAIN bag |-> convert_dbus(bag[i])]>>]

get_connection_properties(x, conn) ==
    LET g == api_protect(x) IN
    IF ~Running(g) THEN g
    ELSE LET r == resolve(g, conn) IN
         IF ~Running(r.ctx) \/ r.path = None THEN r.ctx
         ELSE LET a == service_get_property(r.ctx, r.path)
                  bag == a.props[r.path]
              IN  IF ~Running(a) THEN a
                  ELSE [a EXCEPT !.ret =
                          <<[i \in DOMAIN bag \cap (readonly_properties
                                                    \cup readwrite_properties)
                               |-> convert_dbus(bag[i])]>>]

\* The loop of set_connection_properties over props.keys(), which come in
\* the order keys; set_props[i] raises KeyError for a key set_props lacks
RECURSIVE write_from(_, _, _, _, _)
write_from(x, path, keys, set_props, n) ==
    IF ~Running(x) \/ n > Len(keys) THEN x
    ELSE IF keys[n] \notin readwrite_properties
         THEN write_from(x, path, keys, set_props, n + 1)
    ELSE IF keys[n] \notin DOMAIN set_props THEN Raise(x, "KeyError")
    ELSE write_from(
             service_set_property(x, path, keys[n], set_props[keys[n]]),
             path, keys, set_props, n + 1)

set_connection_properties(x, conn, set_props, keys) ==
    LET g == api_protect(x) IN
    IF ~Running(g) THEN g
    ELSE LET r == resolve(g, conn) IN
         IF ~Running(r.ctx) \/ r.path = None THEN r.ctx
         ELSE write_from(service_get_property(r.ctx, r.path), r.path,
                         keys, set_props, 1)

\* set_wifi_config without its filter
filter_config_all(cfg) == cfg

\* The filter of set_wifi_config
filter_config(cfg) == [i \in DOMAIN cfg \cap allowed_config |-> cfg[i]]

\* self.agent.set_service_params(path, **set_config); self.agent may be None
agent_set(x, path, set_config) ==
    IF ~Running(x) THEN x
    ELSE IF ~x.agent.obj THEN Raise(x, "AttributeError")
    ELSE [x EXCEPT !.agent = AgentSetServiceParams(@, path, set_config)]

set_wifi_config(x, conn, cfg) ==
    LET g == api_protect(x) IN
    IF ~Running(g) THEN g
    ELSE IF conn # None
         THEN LET r == resolve(g, conn) IN
              IF ~Running(r.ctx) \/ r.path = None THEN r.ctx
              ELSE agent_set(r.ctx, r.path, filter_config(cfg))
         ELSE agent_set(g, "*", filter_config(cfg))

----------------------------------------------------------------------------
(* The signal handlers, which run on the bus thread *)

\* The loop of _services_changed_handler over changed: an entry whose
\* property diff holds Name is sent on with the listed properties of the
\* diff; ret collects what was sent
RECURSIVE services_changed_from(_, _, _)
services_changed_from(x, changed, i) ==
    IF i > Len(changed) THEN x
    ELSE LET p == changed[i].props IN
         IF "Name" \notin DOMAIN p
         THEN services_changed_from(x, changed, i + 1)
         ELSE services_changed_from(
                  [Send(x, "connman_connection_changed") EXCEPT !.ret =
                      Append(@,
                          [connection |-> p["Name"],
                           properties |->
                              [k \in DOMAIN p \cap (readonly_properties
                                                    \cup readwrite_properties)
                                  |-> convert_dbus(p[k])]])],
                  changed, i + 1)

services_changed_handler(x, changed, removed) ==
    services_changed_from(x, changed, 1)

property_changed_handler(x, prop_name, prop_value) ==
    [Send(x, "connman_property_changed") EXCEPT !.ret =
        <<[properties |-> [k \in {prop_name} |-> prop_value]]>>]

----------------------------------------------------------------------------
(* The state machine *)

NoCall == [op |-> "none", arg |-> << >>, exc |-> "none", fault |-> FALSE,
           emitted |-> << >>, ret |-> << >>]

\* The actor as constructed with one of the configurations configs, the
\* daemon in one of the power states powered and every service with one of
\* the property bags bags
InitFrom(powered, bags, configs) ==
    /\ manager = FALSE
    /\ receivers = {}
    /\ agent = NoAgent
    /\ state = "stopped"
    /\ config \in configs
    /\ agentReg = FALSE
    /\ techPowered \in powered
    /\ services \in ServiceLists
    /\ connected = {}
    /\ props \in {[p \in Paths |-> b] : b \in bags}
    /\ last = NoCall
    /\ prev = "other"
    /\ pc = "idle"

InitWith(powered, bags) == InitFrom(powered, bags, {InitConfig})

Init == InitWith(InitPowered, {DefaultBag})

\* The daemon with every technology powered
AllOn == [t \in TechTypes |-> TRUE]
InitOn == InitWith({AllOn}, {DefaultBag})

\* The daemon with services of every property bag
InitBags == InitWith({AllOn}, Bags)

\* The actor configured with every scannable set
ScanConfigs ==
    {[InitConfig EXCEPT !.scannable = s] : s \in SUBSET TechTypes}
InitScan == InitFrom(InitPowered, {DefaultBag}, ScanConfigs)

\* The effects of the call op(arg), which ran to the context x
Effects(op, arg, x) ==
    /\ manager' = x.manager
    /\ receivers' = x.receivers
    /\ agent' = x.agent
    /\ state' = x.state
    /\ config' = x.config
    /\ agentReg' = x.agentReg
    /\ techPowered' = x.techPowered
    /\ connected' = x.connected
    /\ props' = x.props
    /\ last' = [op |-> op, arg |-> arg, exc |-> x.exc, fault |-> x.fault,
                emitted |-> x.emitted, ret |-> x.ret]
    /\ prev' = IF last.op = "start" /\ last.exc = "none"
               THEN "start" ELSE "other"

\* The call op(arg) ran on the actor thread, from start to end, to the
\* context x: its effects become the state
Commit(op, arg, x) ==
    /\ pc = "idle"
    /\ pc' = "idle"
    /\ Effects(op, arg, x)
    /\ UNCHANGED services

\* The positions at which a call of a handler can raise: 0 (none raises)
\* and the positions of the calls the handler makes when none raises (a
\* run in which call f raises makes the same first f calls).  noFail is the
\* handler's run from Ctx(0).
FailAts(noFail) == 0..Len(noFail.calls)

Start ==
    \E f \in FailAts(on_start(Ctx(0))) :
        \E x \in {on_start(Ctx(f))} : Commit("start", << >>, x)

Stop ==
    \E f \in FailAts(on_stop(Ctx(0))) :
        \E x \in {on_stop(Ctx(f))} : Commit("stop", << >>, x)

\* The values a caller gives set_property, per key
ConfigValues ==
    [powered |-> {{}, {"wifi"}},
     scannable |-> {{"wifi"}},
     apipa_enabled |-> BOOLEAN,
     unknown |-> {"x"}]

SetProperty ==
    \E name \in DOMAIN ConfigValues :
        \E value \in ConfigValues[name] :
            \E f \in FailAts(set_property(Ctx(0), name, value)) :
                \E x \in {set_property(Ctx(f), name, value)} :
                    Commit("set_property", <<name>>, x)

\* The names callers pass: that of a service, the wildcard sentinel, and
\* one no service has
Names == {"home", "*", "nonexistent"}

GetConnections ==
    \E f \in FailAts(get_connections(Ctx(0))) :
        \E x \in {get_connections(Ctx(f))} :
            Commit("get_connections", << >>, x)

Scan ==
    \E f \in FailAts(scan(Ctx(0))) :
        \E x \in {scan(Ctx(f))} : Commit("scan", << >>, x)

GetConnectionState ==
    \E f \in FailAts(get_connection_state(Ctx(0))) :
        \E x \in {get_connection_state(Ctx(f))} :
            Commit("get_connection_state", << >>, x)

Connect ==
    \E conn \in Names :
        \E f \in FailAts(connect(Ctx(0), conn)) :
            \E x \in {connect(Ctx(f), conn)} : Commit("connect", <<conn>>, x)

Disconnect ==
    \E conn \in Names :
        \E f \in FailAts(disconnect(Ctx(0), conn)) :
            \E x \in {disconnect(Ctx(f), conn)} :
                Commit("disconnect", <<conn>>, x)

GetConnectionProperties ==
    \E conn \in Names :
        \E f \in FailAts(get_connection_properties(Ctx(0), conn)) :
            \E x \in {get_connection_properties(Ctx(f), conn)} :
                Commit("get_connection_properties", <<conn>>, x)

\* The orders in which a dict of the keys S may be iterated
KeyOrders(S) ==
    {q \in [1..Cardinality(S) -> S] : \A i, j \in DOMAIN q : q[i] = q[j] => i = j}

\* The mappings callers pass to set_connection_properties
UpdateKeys == {"Type", "Autoconnect", "IPv4.Configuration"}
Updates == UNION {[K -> {"new"}] : K \in SUBSET UpdateKeys}
FullUpdate == [k \in UpdateKeys |-> "new"]

\* props.keys() of the service conn resolves to (any order fits a call
\* that does not reach the loop)
KeysOf(conn) ==
    IF get_service_by_name(services, conn) = None THEN {<< >>}
    ELSE KeyOrders(DOMAIN props[get_service_by_name(services, conn)])

SetConnectionPropertiesOf(updates) ==
    \E conn \in Names, set_props \in updates :
        \E keys \in KeysOf(conn) :
            \E f \in FailAts(
                    set_connection_properties(Ctx(0), conn, set_props, keys)) :
                \E x \in {set_connection_properties(Ctx(f), conn, set_props,
                                                    keys)} :
                    Commit("set_connection_properties", <<conn, set_props>>, x)

SetConnectionProperties == SetConnectionPropertiesOf(Updates)

\* The configurations callers pass to set_wifi_config
WifiConfigs ==
    { [ssid |-> "S", passphrase |-> "P"],
      [name |-> "N", wpspin |-> "1234", identity |-> "me"] }

SetWifiConfigOf(conns, cfgs) ==
    \E conn \in conns, cfg \in cfgs :
        \E f \in FailAts(set_wifi_config(Ctx(0), conn, cfg)) :
            \E x \in {set_wifi_config(Ctx(f), conn, cfg)} :
                Commit("set_wifi_config", <<conn, cfg>>, x)

SetWifiConfig == SetWifiConfigOf(Names \cup {None}, WifiConfigs)

\* The daemon asks the registered agent for the credentials of path
RequestInput ==
    /\ agentReg /\ agent.obj /\ agent.exported
    /\ \E path \in Paths :
        /\ last' = [op |-> "RequestInput", arg |-> <<path>>, exc |-> "none",
                    fault |-> FALSE, emitted |-> << >>,
                    ret |-> <<AgentRequestInput(agent, path)>>]
        /\ prev' = "other"
        /\ UNCHANGED <<manager, receivers, agent, state, config, agentReg,
                       techPowered, services, connected, props, pc>>

\* The daemon's enumeration changes
ServicesChanged ==
    /\ services' \in ServiceLists \ {services}
    /\ last' = [NoCall EXCEPT !.op = "ServicesChanged"]
    /\ prev' = "other"
    /\ UNCHANGED <<manager, receivers, agent, state, config, agentReg,
                   techPowered, connected, props, pc>>

\* start() in two steps of the actor thread, split where the receivers are
\* installed and self.manager is set
StartInstall ==
    /\ pc = "idle"
    /\ \E f \in FailAts(on_start_install(Ctx(0))) :
        \E x \in {on_start_install(Ctx(f))} :
            /\ Effects("start", << >>, x)
            /\ pc' = IF Running(x) /\ ~manager THEN "starting" ELSE "idle"
    /\ UNCHANGED services

StartFinish ==
    /\ pc = "starting"
    /\ \E f \in FailAts(on_start_finish(Ctx(0))) :
        \E x \in {on_start_finish(Ctx(f))} : Effects("start", << >>, x)
    /\ pc' = "idle"
    /\ UNCHANGED services

\* The ServicesChanged signals the daemon sends: changed lists (path,
\* property diff) and removed lists (paths)
ChangedLists ==
    { << >>,
      << [path |-> "p1",
          props |-> [k \in {"Name", "Strength", "Bogus"} |->
                        IF k = "Name" THEN "home"
                        ELSE IF k = "Strength" THEN "Byte(60)" ELSE "x"]] >>,
      << [path |-> "p1", props |-> [k \in {"Strength"} |-> "Byte(60)"]] >> }

RemovedLists == { << >>, <<"p2">> }

\* The bus thread delivers a ServicesChanged signal to the installed
\* receiver; the daemon's enumeration is what the signal made it
ServicesChangedSignal ==
    /\ SIGNAL_SERVICES_CHANGED \in receivers
    /\ \E changed \in ChangedLists, removed \in RemovedLists :
        /\ changed # << >> \/ removed # << >>
        /\ Effects("services_changed", <<changed, removed>>,
                   services_changed_handler(Ctx(0), changed, removed))
    /\ services' \in ServiceLists
    /\ UNCHANGED pc

\* The bus thread delivers a PropertyChanged signal of the manager
PropertyChangedSignal ==
    /\ SIGNAL_PROPERTY_CHANGED \in receivers
    /\ \E prop_value \in {"online", "idle"} :
        Effects("property_changed", <<"State", prop_value>>,
                property_changed_handler(Ctx(0), "State", prop_value))
    /\ UNCHANGED <<services, pc>>

Next ==
    \/ Start
    \/ Stop
    \/ SetProperty

Spec == Init /\ [][Next]_vars

NextApi ==
    \/ Start
    \/ Stop
    \/ GetConnections
    \/ Scan
    \/ GetConnectionState
    \/ Connect
    \/ Disconnect
    \/ GetConnectionProperties
    \/ SetConnectionPropertiesOf({FullUpdate})
    \/ SetWifiConfigOf({None}, {[ssid |-> "S", passphrase |-> "P"]})

SpecApi == InitOn /\ [][NextApi]_vars

NextProps ==
    \/ Start
    \/ GetConnectionProperties
    \/ SetConnectionProperties

SpecProps == InitBags /\ [][NextProps]_vars

NextWifi ==
    \/ Start
    \/ Stop
    \/ SetWifiConfig
    \/ RequestInput
    \/ ServicesChanged

SpecWifi == InitOn /\ [][NextWifi]_vars

NextScan ==
    \/ Start
    \/ Stop
    \/ Scan

SpecScan == InitScan /\ [][NextScan]_vars

\* The daemon drops the registration at agent_path by itself (it was
\* restarted)
AgentReleased ==
    /\ agentReg
    /\ agentReg' = FALSE
    /\ last' = [NoCall EXCEPT !.op = "AgentReleased"]
    /\ prev' = "other"
    /\ UNCHANGED <<manager, receivers, agent, state, config, techPowered,
                   services, connected, props, pc>>

NextCache ==
    \/ Start
    \/ Stop
    \/ SetProperty
    \/ SetWifiConfigOf({"home", None}, {[ssid |-> "S", passphrase |-> "P"]})
    \/ RequestInput
    \/ AgentReleased

SpecCache == InitOn /\ [][NextCache]_vars

NextEvents ==
    \/ StartInstall
    \/ StartFinish
    \/ Stop
    \/ ServicesChangedSignal
    \/ PropertyChangedSignal

SpecEvents == InitOn /\ [][NextEvents]_vars

----------------------------------------------------------------------------
(* Vocabulary of the properties *)

IsLifecycle(n) == n \in {"service_started", "service_stopped"}
Lifecycle(seq) == SelectSeq(seq, IsLifecycle)

Count(seq, c) == Cardinality({i \in 1..Len(seq) : seq[i] = c})

BothReceivers == {SIGNAL_SERVICES_CHANGED, SIGNAL_PROPERTY_CHANGED}

\* The actor's fields and the daemon's state in a context
CoreOf(x) ==
    <<x.manager, x.receivers, x.agent, x.state, x.config, x.agentReg,
      x.techPowered, x.connected, x.props>>

\* The session is Started: start() completed and the session it built is
\* whole (handle, both subscriptions, agent exported and registered)
EstablishedIn(x) ==
    /\ x.manager
    /\ x.state = "started"
    /\ x.receivers = BothReceivers
    /\ x.agent.obj /\ x.agent.exported
    /\ x.agentReg

Established == EstablishedIn(Ctx(0))

----------------------------------------------------------------------------
(* C1 .. C6: the lifecycle *)

\* C1: a set_property with a key of the config, called on a Started session
\* and with no call raising, emits as lifecycle notifications exactly one
\* service_stopped followed by exactly one service_started.
C1_BounceStoppedThenStarted ==
    [][(/\ Established
        /\ last'.op = "set_property"
        /\ last'.arg[1] \in DOMAIN config
        /\ ~last'.fault)
       => Lifecycle(last'.emitted) = <<"service_stopped", "service_started">>
      ]_vars

\* C2: after a set_property with a key of the config in which no call
\* raised, the session is Started, whatever it was before, and every
\* technology of the new powered set is powered.
C2_SetPropertyLeavesStarted ==
    [][(/\ last'.op = "set_property"
        /\ last'.arg[1] \in DOMAIN config
        /\ ~last'.fault)
       => /\ Established'
          /\ \A t \in config'.powered : techPowered'[t]
      ]_vars

\* Two start() calls in a row from the present state, no call raising
FirstStart == on_start(Ctx(0))
SecondStart == on_start(FirstStart)

\* C3, as claimed: from any state, two start() calls in a row in which no
\* call raises emit exactly one service_started, install each of the two
\* subscriptions once and register the agent once, and the second call
\* makes no call and changes nothing.
C3_StartTwiceExactlyOnce ==
    (~FirstStart.fault /\ ~SecondStart.fault)
    => /\ Count(SecondStart.emitted, "service_started") = 1
       /\ Count(SecondStart.calls,
                <<"add_signal_receiver", SIGNAL_SERVICES_CHANGED>>) = 1
       /\ Count(SecondStart.calls,
                <<"add_signal_receiver", SIGNAL_PROPERTY_CHANGED>>) = 1
       /\ Count(SecondStart.calls, <<"register_agent", agent_path>>) = 1
       /\ SecondStart.calls = FirstStart.calls
       /\ CoreOf(SecondStart) = CoreOf(FirstStart)

\* C3, amended: from any state, the second of two start() calls in a row in
\* which no call raises makes no call, emits nothing and changes nothing;
\* the pair emits one service_started, installs each subscription once and
\* registers the agent once when no handle was held before the first call,
\* and makes no call and emits nothing when one was.
C3_StartIdempotent ==
    (~FirstStart.fault /\ ~SecondStart.fault)
    => /\ SecondStart.calls = FirstStart.calls
       /\ SecondStart.emitted = FirstStart.emitted
       /\ CoreOf(SecondStart) = CoreOf(FirstStart)
       /\ IF manager
          THEN FirstStart.calls = << >> /\ FirstStart.emitted = << >>
          ELSE /\ FirstStart.emitted = <<"service_started">>
               /\ Count(FirstStart.calls,
                        <<"add_signal_receiver", SIGNAL_SERVICES_CHANGED>>) = 1
               /\ Count(FirstStart.calls,
                        <<"add_signal_receiver", SIGNAL_PROPERTY_CHANGED>>) = 1
               /\ Count(FirstStart.calls, <<"register_agent", agent_path>>) = 1
               /\ EstablishedIn(SecondStart)

\* C3 witness: two start() calls in a row completed, the second a no-op on
\* the Started session the first one built
C3_Witness ==
    /\ prev = "start"
    /\ last.op = "start" /\ ~last.fault /\ last.emitted = << >>
    /\ Established

\* A call that the gate turned away: NotReady, no pyconnman call made,
\* nothing changed
TurnedAway(r) ==
    r.exc = "NotReady" /\ r.calls = << >> /\ CoreOf(r) = CoreOf(Ctx(0))

\* C4: while the session is not Started, every operational call fails with
\* NotReady, makes no pyconnman call and leaves the actor's and the
\* daemon's state as they were.
C4_ReadinessGate ==
    ~Established
    => /\ TurnedAway(get_connections(Ctx(0)))
       /\ TurnedAway(scan(Ctx(0)))
       /\ TurnedAway(get_connection_state(Ctx(0)))
       /\ \A conn \in Names :
            /\ TurnedAway(connect(Ctx(0), conn))
            /\ TurnedAway(disconnect(Ctx(0), conn))
            /\ TurnedAway(get_connection_properties(Ctx(0), conn))
            /\ \A set_props \in Updates, keys \in KeysOf(conn) :
                 TurnedAway(set_connection_properties(Ctx(0), conn,
                                                      set_props, keys))
       /\ \A conn \in Names \cup {None}, cfg \in WifiConfigs :
            TurnedAway(set_wifi_config(Ctx(0), conn, cfg))

\* C5: between operations the connection handle is present exactly when
\* both subscriptions are installed, the agent is created and registered
\* and startup completed.
C5_SessionAtomic ==
    manager <=> (/\ receivers = BothReceivers
                 /\ agent.obj
                 /\ agentReg
                 /\ state = "started")

\* C6: a stop() called on a Started session discards the handle, reaches
\* Stopped and emits service_stopped without raising, whichever teardown
\* call fails.
C6_TeardownNeverBlocks ==
    [][(Established /\ last'.op = "stop")
       => /\ last'.exc = "none"
          /\ ~manager'
          /\ state' = "stopped"
          /\ last'.emitted = <<"service_stopped">>
      ]_vars

----------------------------------------------------------------------------
(* C7 .. C10: the registry calls and the credential agent *)

\* The path a name resolves to in the present enumeration: that of the
\* entry of least index with that Name
Matches(conn) == {i \in 1..Len(services) : services[i].name = conn}
Resolved(conn) ==
    IF Matches(conn) = {} THEN None
    ELSE services[CHOOSE i \in Matches(conn) :
                      \A j \in Matches(conn) : i <= j].path

\* C7: on a Started session, a set_connection_properties on a resolved
\* service in which no pyconnman call fails raises nothing and writes
\* updates[key] to exactly the keys of updates that are read-write and in
\* the live bag, whatever updates holds and omits.
C7_WriteFiltering ==
    [][(/\ Established
        /\ last'.op = "set_connection_properties"
        /\ Resolved(last'.arg[1]) # None
        /\ last'.exc # "TransportError")
       => LET path == Resolved(last'.arg[1])
              updates == last'.arg[2]
              written == DOMAIN updates \cap readwrite_properties
                             \cap DOMAIN props[path]
          IN  /\ last'.exc = "none"
              /\ props' = [props EXCEPT ![path] =
                              [k \in DOMAIN props[path] |->
                                  IF k \in written THEN updates[k]
                                  ELSE props[path][k]]]
      ]_vars

\* The fields of a configuration that set_wifi_config may pass on
AllowedFields(cfg) ==
    [k \in {i \in DOMAIN cfg : i \in {"name", "ssid", "passphrase", "wpspin"}}
        |-> cfg[k]]

\* The entries of the credential cache other than target's are the same
\* in a and b
SameElsewhere(a, b, target) ==
    \A t \in (Paths \cup {"*"}) \ {target} :
        /\ t \in DOMAIN a.params <=> t \in DOMAIN b.params
        /\ t \in DOMAIN a.params => a.params[t] = b.params[t]

\* C8: on a Started session, a completed set_wifi_config for a name that
\* resolves to a path (or for no name: the wildcard) makes the agent answer
\* requests for that path with exactly the allowed fields given, and keeps
\* every other entry; with an unresolved name it changes nothing; nothing
\* else changes the cache; and a request is answered from the entry of its
\* path if there is one, from the wildcard entry only if there is none, and
\* not at all if there is neither.
C8_CredentialRouting ==
    [][Established
       => /\ (last'.op = "set_wifi_config" /\ last'.exc = "none")
             => LET conn == last'.arg[1]
                    target == IF conn = None THEN "*" ELSE Resolved(conn)
                IN  IF target = None THEN agent' = agent
                    ELSE /\ target \in DOMAIN agent'.params
                         /\ agent'.params[target] = AllowedFields(last'.arg[2])
                         /\ AgentRequestInput(agent', target)
                                = AllowedFields(last'.arg[2])
                         /\ SameElsewhere(agent, agent', target)
          /\ last'.op \in {"RequestInput", "ServicesChanged"}
             => agent' = agent
          /\ last'.op = "RequestInput"
             => LET path == last'.arg[1] IN
                last'.ret =
                    << IF path \in DOMAIN agent.params
                       THEN agent.params[path]
                       ELSE IF "*" \in DOMAIN agent.params
                            THEN agent.params["*"]
                            ELSE NoAnswer >>
      ]_vars

\* C8 witness: on a Started session holding an entry for p1 and a
\* different wildcard entry, a request for p1 was answered from p1's entry
C8_Witness ==
    /\ Established
    /\ last.op = "RequestInput" /\ last.arg = <<"p1">>
    /\ "p1" \in DOMAIN agent.params /\ "*" \in DOMAIN agent.params
    /\ agent.params["p1"] # agent.params["*"]
    /\ last.ret = <<agent.params["p1"]>>

\* C9: on a Started session, a completed set_wifi_config("*", fields) stores
\* the allowed fields as the wildcard entry, so that a request for a path
\* with no entry of its own is answered with them, whether or not a service
\* is named "*".
C9_WildcardSentinel ==
    [][(/\ Established
        /\ last'.op = "set_wifi_config"
        /\ last'.arg[1] = "*"
        /\ last'.exc = "none")
       => /\ "*" \in DOMAIN agent'.params
          /\ agent'.params["*"] = AllowedFields(last'.arg[2])
          /\ \A path \in Paths :
                path \notin DOMAIN agent'.params
                => AgentRequestInput(agent', path)
                       = AllowedFields(last'.arg[2])
      ]_vars

\* C10: on a Started session, connect and disconnect of a name no service
\* of the enumeration has complete without raising, make no call but the
\* enumeration and change nothing; of a name some service has, the call
\* after the enumeration is the connect (disconnect) of the first match.
C10_FailSoftResolution ==
    Established
    => \A conn \in Names :
         LET c == connect(Ctx(0), conn)
             d == disconnect(Ctx(0), conn)
         IN  IF Resolved(conn) = None
             THEN /\ c.exc = "none" /\ d.exc = "none"
                  /\ c.calls = << <<"get_services">> >>
                  /\ d.calls = << <<"get_services">> >>
                  /\ CoreOf(c) = CoreOf(Ctx(0))
                  /\ CoreOf(d) = CoreOf(Ctx(0))
             ELSE /\ c.calls = << <<"get_services">>,
                                  <<"connect", Resolved(conn)>> >>
                  /\ d.calls = << <<"get_services">>,
                                  <<"disconnect", Resolved(conn)>> >>
                  /\ c.connected = connected \cup {Resolved(conn)}
                  /\ d.connected = connected \ {Resolved(conn)}

\* C10 witness: on a Started session a connect of a name no service has
\* completed
C10_Witness ==
    /\ Established
    /\ last.op = "connect" /\ last.arg = <<"nonexistent">>
    /\ last.exc = "none" /\ ~last.fault
    /\ Resolved("nonexistent") = None

----------------------------------------------------------------------------
(* C11 .. C20 *)

\* The Python value of a dbus value: that of a dbus.Byte is the int it holds
ValueOf(v) == IF v = "Byte(60)" THEN "60" ELSE v

\* C11: on a Started session, get_connection_properties of a name that
\* resolves returns, without raising, the live bag of the service
\* restricted to the keys of the read-only and read-write lists, whatever
\* other keys the bag holds; of a name that does not resolve it returns
\* nothing (None), without raising.
C11_Whitelist ==
    Established
    => \A conn \in Names :
         LET r == get_connection_properties(Ctx(0), conn)
             path == Resolved(conn)
         IN  /\ r.exc = "none"
             /\ IF path = None THEN r.ret = << >>
                ELSE /\ Len(r.ret) = 1
                     /\ DOMAIN r.ret[1]
                            = DOMAIN props[path]
                                \cap (readonly_properties
                                      \cup readwrite_properties)
                     /\ \A k \in DOMAIN r.ret[1] :
                            r.ret[1][k] = ValueOf(props[path][k])

\* C11 witness: on a Started session the properties of a service whose bag
\* holds a key of neither list were read, and came back without that key
C11_Witness ==
    /\ Established
    /\ last.op = "get_connection_properties" /\ last.exc = "none"
    /\ Resolved(last.arg[1]) # None
    /\ "Bogus" \in DOMAIN props[Resolved(last.arg[1])]
    /\ Len(last.ret) = 1
    /\ DOMAIN last.ret[1] = {"Autoconnect"}

\* The technologies a run wrote Powered to
PowerWrites(r) ==
    {t \in TechTypes :
        \E i \in 1..Len(r.calls) : r.calls[i] = <<"Powered=True", t>>}

Snapshot(enum) ==
    [i \in 1..Len(enum) |-> <<enum[i].name, props[enum[i].path]["Type"]>>]

\* C13: while the session is Started, every ServicesChanged signal that
\* reports a changed or a removed service results in one notification,
\* whose payload is the enumeration of (name, type) pairs as it is after
\* the signal.
C13_ConnectionsChanged ==
    [][(Established /\ last'.op = "services_changed")
       => /\ Len(last'.emitted) = 1
          /\ DOMAIN last'.ret[1] = {"connections"}
          /\ last'.ret[1].connections = Snapshot(services')
      ]_vars

\* The technologies a run sent a scan request to
ScanRequests(r) ==
    {t \in TechTypes : \E i \in 1..Len(r.calls) : r.calls[i] = <<"scan", t>>}

\* C14: on a Started session, scan sends a scan request to exactly the
\* technologies whose type is in the scannable set, also when the scan
\* request of one of them fails.
C14_ScanFaultIsolation ==
    Established
    => LET noFail == scan(Ctx(0)) IN
       /\ ScanRequests(noFail) = config.scannable \cap TechTypes
       /\ \A f \in 1..Len(noFail.calls) :
            noFail.calls[f][1] = "scan"
            => ScanRequests(scan(Ctx(f))) = config.scannable \cap TechTypes

\* A run attempted to unregister agent_path at the daemon before it
\* registered the agent there
UnregisterBeforeRegister(r) ==
    \E i, j \in 1..Len(r.calls) :
        /\ i < j
        /\ r.calls[i] = <<"unregister_agent", agent_path>>
        /\ r.calls[j] = <<"register_agent", agent_path>>

\* C15: a start() that finds no handle, while a registration is left at
\* agent_path in the daemon, attempts the unregistration of agent_path
\* before it registers the fresh agent, and the registration does not
\* fail.
C15_StaleAgentCleanup ==
    (~manager /\ agentReg)
    => LET r == on_start(Ctx(0)) IN
       UnregisterBeforeRegister(r) /\ r.exc = "none"

\* C16: a stop() on a Started session in which no call fails unregisters
\* the agent, then removes the two receivers, then discards the handle and
\* sends service_stopped once (neither happens when a removal raises); a
\* stop() on a session that holds no handle makes no call, sends nothing
\* and changes nothing.
C16_StopOrderedIdempotent ==
    LET r == on_stop(Ctx(0)) IN
    /\ Established
       => /\ r.calls = << <<"remove_from_connection", agent_path>>,
                          <<"unregister_agent", agent_path>>,
                          <<"remove_signal_receiver", SIGNAL_SERVICES_CHANGED>>,
                          <<"remove_signal_receiver", SIGNAL_PROPERTY_CHANGED>> >>
          /\ r.exc = "none"
          /\ r.emitted = <<"service_stopped">>
          /\ ~r.manager /\ r.state = "stopped"
          /\ r.receivers = {} /\ r.agent = NoAgent /\ ~r.agentReg
          /\ \A f \in {3, 4} :
                on_stop(Ctx(f)).manager /\ on_stop(Ctx(f)).emitted = << >>
    /\ ~manager
       => /\ r.calls = << >> /\ r.emitted = << >> /\ r.exc = "none"
          /\ CoreOf(r) = CoreOf(Ctx(0))

\* C16 witness: a stop() called right after a start() that completed has
\* stopped the session and sent service_stopped
C16_Witness ==
    /\ prev = "start"
    /\ last.op = "stop" /\ ~last.fault
    /\ last.emitted = <<"service_stopped">>
    /\ ~manager /\ state = "stopped"

\* The positions of the service writes and connects in the calls of a run
Touching(r) ==
    {i \in 1..Len(r.calls) : r.calls[i][1] \in {"set_property", "connect"}}

\* C17: a start() that completes writes the manual configuration (method
\* manual, the configured address and netmask) to IPv4.Configuration of a
\* service and then connects it, as its last two calls, exactly when the
\* daemon's state is idle, the fallback is enabled and the configured name
\* resolves to that service, and writes no service property and connects
\* nothing otherwise; service_started is not sent when the write or the
\* connect raises.
C17_LinkLocalFallback ==
    LET target == Resolved(config.apipa_interface)
        applies == /\ DaemonState(Ctx(0)) = "idle"
                   /\ config.apipa_enabled
                   /\ target # None
    IN  \A f \in FailAts(on_start(Ctx(0))) :
            LET r == on_start(Ctx(f))
                n == Len(r.calls)
            IN  r.emitted = <<"service_started">>
                => IF applies
                   THEN /\ Touching(r) = {n - 1, n}
                        /\ r.calls[n - 1]
                             = <<"set_property", target, "IPv4.Configuration",
                                 "manual 169.254.1.1/255.255.0.0">>
                        /\ r.calls[n] = <<"connect", target>>
                        /\ config.apipa_ipaddr = "169.254.1.1"
                        /\ config.apipa_netmask = "255.255.0.0"
                        /\ f = 0 => /\ on_start(Ctx(n - 1)).emitted = << >>
                                    /\ on_start(Ctx(n)).emitted = << >>
                   ELSE Touching(r) = {}

\* C17 witness: a start() with the fallback enabled on an idle daemon
\* completed, and the service named by the configuration carries the
\* manual configuration and is connected
C17_Witness ==
    /\ last.op = "start" /\ last.emitted = <<"service_started">>
    /\ config.apipa_enabled
    /\ Resolved(config.apipa_interface) = "p1"
    /\ props["p1"]["IPv4.Configuration"] = "manual 169.254.1.1/255.255.0.0"
    /\ connected = {"p1"}

\* The lifecycle notifications seq continue an alternating sequence whose
\* last notification was service_started if s is "started", and was
\* service_stopped (or none at all) if s is "stopped"; self.state is set
\* to the one right before service_started is sent and to the other right
\* before service_stopped is
RECURSIVE Alternates(_, _)
Alternates(seq, s) ==
    IF seq = << >> THEN TRUE
    ELSE IF s = "started"
         THEN Head(seq) = "service_stopped" /\ Alternates(Tail(seq), "stopped")
         ELSE Head(seq) = "service_started" /\ Alternates(Tail(seq), "started")

\* C18: over every sequence of start(), stop() and set_property calls,
\* failing ones included, the service_started and service_stopped
\* notifications alternate, beginning with service_started.
C18_LifecycleAlternation ==
    [][Alternates(Lifecycle(last'.emitted), state)]_vars

\* C19: a signal handler sends a notification only between the
\* service_started and the service_stopped of a session (self.state is
\* "started" exactly then), and leaves the handle, the agent and the
\* config as they are.
C19_EventWindow ==
    [][last'.op \in {"services_changed", "property_changed"}
       => /\ last'.emitted # << >> => state' = "started"
          /\ manager' = manager
          /\ agent' = agent
          /\ config' = config
      ]_vars

\* C20: every start() that completes leaves the actor with a fresh agent
\* whose cache is empty, so that no request is answered from credentials
\* given before that start(), whatever agent the actor held before it.
C20_CachePerSession ==
    \A f \in FailAts(on_start(Ctx(0))) :
        LET r == on_start(Ctx(f)) IN
        r.emitted = <<"service_started">>
        => /\ r.agent = NewAgent
           /\ \A path \in Paths : AgentRequestInput(r.agent, path) = NoAnswer

\* C20 witness: a stopped actor that kept the agent of the last session
\* with the credentials given to it (the unregistration at stop failed;
\* the daemon has dropped the registration since), on which a start()
\* completes, with an empty cache
C20_Witness ==
    /\ ~manager /\ agent.obj /\ ~agent.exported /\ ~agentReg
    /\ agent.params # NoParams
    /\ on_start(Ctx(0)).emitted = <<"service_started">>
    /\ on_start(Ctx(0)).agent.params = NoParams

============================================================================
